---- MODULE Spec2Model ----
(***************************************************************************)
(* Verification model of the ys222/Quantum-Computing notebooks.            *)
(*                                                                         *)
(* The repository is a set of Jupyter notebooks.  The model runs one       *)
(* notebook per behaviour: the kernel executes the code cells in document  *)
(* order, statement by statement.  Three calls are modelled with their     *)
(* inner steps: GroverOptimizer.solve (Grover Adaptive Search as the       *)
(* notebook describes it), MinimumEigenOptimizer.solve, and the notebook's *)
(* own print_result.                                                       *)
(***************************************************************************)
EXTENDS Integers, Sequences, FiniteSets, TLC

VARIABLES
    nb,            \* the notebook the kernel is running
    cell,          \* index (document order) of the code cell being executed
    stmt,          \* index of the next statement of that cell
    err,           \* the exception shown in the cell output, or NoError
    lastOutcome,   \* outcome of the last call the kernel made: "ok" / "raise"
    gpc,           \* GroverOptimizer.solve: "idle", "run", "done"
    y,             \* GAS threshold
    optimum,       \* GAS best-known assignment
    noProgress,    \* GAS iterations since y last changed
    measured,      \* assignments measured so far in the GAS run
    results,       \* global `results` of the Grover notebook
    exact_result,  \* global `exact_result` of the Grover notebook
    result,        \* global `result` of the portfolio notebook
    ppc,           \* print_result: "idle", "loop", "done", "raised"
    eigenstate,    \* print_result: its local `eigenstate`
    probabilities, \* print_result: the sorted (key, probability) items left
    printed,       \* print_result: table rows printed by the current call
    trace,         \* print_result: source lines executed by the current call
    globals,       \* portfolio notebook: the parameters bound in the kernel
    portfolio,     \* global `portfolio` of the portfolio notebook
    qp,            \* global `qp` of the portfolio notebook
    filterCall     \* a call of filter_criterion: its arguments and its value

vars == <<nb, cell, stmt, err, lastOutcome, gpc, y, optimum,
          noProgress, measured, results, exact_result, result, ppc,
          eigenstate, probabilities, printed, trace, globals, portfolio, qp,
          filterCall>>

kernelVars == <<nb, cell, stmt, err, lastOutcome>>
gasVars == <<gpc, y, optimum, noProgress, measured, results>>
printVars == <<ppc, eigenstate, probabilities, printed, trace>>
extVars == <<globals, portfolio, qp>>

NoError == [op |-> "none", line |-> 0]
None == [status |-> "None"]

(***************************************************************************)
(* Generic helpers.                                                        *)
(***************************************************************************)
RECURSIVE SumSeq(_)
SumSeq(s) == IF s = <<>> THEN 0 ELSE Head(s) + SumSeq(Tail(s))

Reversed(s) == [i \in 1..Len(s) |-> s[Len(s) + 1 - i]]

RECURSIVE Pow2(_)
Pow2(n) == IF n = 0 THEN 1 ELSE 2 * Pow2(n - 1)

S(op, lib, line) == [op |-> op, lib |-> lib, line |-> line]

(***************************************************************************)
(* Grover notebook: the toy QUBO and Grover Adaptive Search.               *)
(***************************************************************************)
Assignments == {<<a, b, c>> : a \in {0, 1}, b \in {0, 1}, c \in {0, 1}}

\* model.minimize(-x0 + 2 * x1 - 3 * x2 - 2 * x0 * x2 - 1 * x1 * x2)
\* Variant with the sign of the x1 term flipped.
Q_wrong_sign(x) == -x[1] - 2 * x[2] - 3 * x[3] - 2 * x[1] * x[3] - 1 * x[2] * x[3]
Q(x) == -x[1] + 2 * x[2] - 3 * x[3] - 2 * x[1] * x[3] - 1 * x[2] * x[3]

\* GroverOptimizer(6, num_iterations=10, sampler=Sampler())
NumValueQubits == 6
NumIterations == 10

\* The m-qubit register |Q(x) - y>_m: the value in two's complement.
\* Variant with a 3-qubit register.
ValueRegister_narrow(v) == v % Pow2(3)
ValueRegister(v) == v % Pow2(NumValueQubits)

\* The value a measurement of the register reads back.
RegisterValue(reg) ==
    IF reg >= Pow2(NumValueQubits - 1) THEN reg - Pow2(NumValueQubits) ELSE reg

\* The oracle O is independent of y: it flags the states whose value
\* register holds a negative number, i.e. whose sign qubit is set.
\* Variant that flags the positive values (the oracle of a maximisation).
Oracle_maximise(reg) == reg # 0 /\ reg < Pow2(NumValueQubits - 1)
Oracle(reg) == reg >= Pow2(NumValueQubits - 1)

\* The states the oracle flags at threshold yy.
Flagged(yy) == {x \in Assignments : Oracle(ValueRegister(Q(x) - yy))}

\* Threshold after an iteration that measured register content reg.
\* Variant that takes every measured value as the new threshold.
NextThreshold_always(yy, reg) == yy + RegisterValue(reg)
NextThreshold(yy, reg) == IF Oracle(reg) THEN yy + RegisterValue(reg) ELSE yy

\* Iterations without progress after an iteration that measured reg.
\* Variant that does not count the iterations without progress.
NextNoProgress_stuck(n, reg) == IF Oracle(reg) THEN 0 ELSE n
NextNoProgress(n, reg) == IF Oracle(reg) THEN 0 ELSE n + 1

\* The exact reference: the assignment of least objective value.
\* Variant that takes the assignment of greatest objective value.
ExactArgmin_max(dom) == CHOOSE x \in dom : \A z \in dom : Q(x) >= Q(z)
ExactArgmin(dom) == CHOOSE x \in dom : \A z \in dom : Q(x) <= Q(z)

\* Recorded output of cell [3].
ReportedX == <<1, 0, 1>>
ReportedFval == -6

(***************************************************************************)
(* Portfolio notebook: the instance, the recorded runs, print_result.      *)
(***************************************************************************)
\* num_assets = 4;  budget = num_assets // 2
NumAssets == 4
Budget == NumAssets \div 2

Selections ==
    {<<a, b, c, d>> : a \in {0, 1}, b \in {0, 1}, c \in {0, 1}, d \in {0, 1}}

\* portfolio.to_quadratic_program().objective.evaluate(x), in units of 1e-4,
\* as the notebook prints it for the 16 selections (output of cell [8]).
Value(x) ==
    CASE x = <<1, 0, 0, 1>> -> -149
      [] x = <<1, 0, 1, 0>> -> -140
      [] x = <<1, 1, 0, 0>> -> -130
      [] x = <<0, 0, 1, 1>> -> -10
      [] x = <<0, 1, 1, 0>> -> 8
      [] x = <<0, 1, 0, 1>> -> 2
      [] x = <<0, 1, 0, 0>> -> 9
      [] x = <<1, 1, 0, 1>> -> -139
      [] x = <<1, 1, 1, 1>> -> -139
      [] x = <<0, 0, 0, 0>> -> 0
      [] x = <<1, 0, 0, 0>> -> -140
      [] x = <<0, 0, 1, 0>> -> -1
      [] x = <<0, 1, 1, 1>> -> 0
      [] x = <<1, 1, 1, 0>> -> -130
      [] x = <<0, 0, 0, 1>> -> -8
      [] x = <<1, 0, 1, 1>> -> -150

\* The constraint 1^T x = B of the quadratic program, as squared violation.
\* Variant that drops the budget constraint.
Violation_ignored(x) == 0
Violation(x) == (SumSeq(x) - Budget) * (SumSeq(x) - Budget)

\* Order of the samples in MinimumEigenOptimizer: the budget constraint is
\* a penalty that outweighs the objective, then the objective value decides.
Better(a, b) ==
    \/ Violation(a) < Violation(b)
    \/ Violation(a) = Violation(b) /\ Value(a) <= Value(b)

Best(samples) == CHOOSE a \in samples : \A b \in samples : Better(a, b)

\* The statements of cells [2] and [4] that bind a parameter.
ParameterStatements ==
    {"num_assets = 4", "q = 0.5", "budget = num_assets // 2",
     "penalty = num_assets"}

\* The kernel globals g after a parameter statement (q in tenths).
Assigned(op, g) ==
    CASE op = "num_assets = 4" -> ("num_assets" :> NumAssets) @@ g
      [] op = "q = 0.5" -> ("q" :> 5) @@ g
      [] op = "budget = num_assets // 2" ->
            ("budget" :> (g["num_assets"] \div 2)) @@ g
      [] op = "penalty = num_assets" -> ("penalty" :> g["num_assets"]) @@ g

\* PortfolioOptimization(expected_returns=mu, covariances=sigma,
\*                       risk_factor=q, budget=budget), evaluated in globals g.
PortfolioOptimization(g) ==
    [status |-> "PortfolioOptimization",
     expected_returns |-> "mu", covariances |-> "sigma",
     risk_factor |-> g["q"], budget |-> g["budget"]]

\* portfolio.to_quadratic_program(): the objective q x^T Sigma x - mu^T x
\* and the one linear constraint 1^T x = budget.
ToQuadraticProgram(p) ==
    [status |-> "QuadraticProgram",
     objective |-> [linear |-> p.expected_returns,
                    quadratic |-> p.covariances,
                    risk_factor |-> p.risk_factor],
     constraints |-> << [sum_x_equals |-> p.budget] >>]

\* A row of a printed table: the selection x and its probability (1e-4).
\* The eigenstate key of a row is the bitstring k with x = reversed(k).
Item(x, p) == <<Reversed(x), p>>

\* NumPyMinimumEigensolver: the ground state of the penalised problem, a
\* state vector with amplitude 1 (unit 1e-2) on one basis state.
NumPyEigenstate ==
    [kind |-> "Statevector", items |-> << Item(Best(Selections), 100) >>]

\* SamplingVQE: the quasi-distribution recorded in the output of cell [7].
SVQEEigenstate ==
    [kind |-> "QuasiDistribution",
     items |-> << Item(<<0, 1, 1, 0>>, 8525), Item(<<1, 0, 0, 1>>, 410),
                  Item(<<0, 0, 1, 1>>, 312),  Item(<<0, 0, 0, 1>>, 215),
                  Item(<<1, 0, 1, 1>>, 195),  Item(<<1, 0, 0, 0>>, 88),
                  Item(<<0, 1, 1, 1>>, 78),   Item(<<0, 1, 0, 1>>, 78),
                  Item(<<0, 1, 0, 0>>, 59),   Item(<<1, 0, 1, 0>>, 20),
                  Item(<<1, 1, 0, 1>>, 10),   Item(<<0, 0, 0, 0>>, 10) >>]

\* QAOA: the quasi-distribution recorded in the output of cell [8].
QAOAEigenstate ==
    [kind |-> "QuasiDistribution",
     items |-> << Item(<<1, 0, 0, 1>>, 1797), Item(<<1, 0, 1, 0>>, 1729),
                  Item(<<1, 1, 0, 0>>, 1641), Item(<<0, 0, 1, 1>>, 1592),
                  Item(<<0, 1, 1, 0>>, 1553), Item(<<0, 1, 0, 1>>, 1445),
                  Item(<<0, 1, 0, 0>>, 49),   Item(<<1, 1, 0, 1>>, 39),
                  Item(<<1, 1, 1, 1>>, 39),   Item(<<0, 0, 0, 0>>, 29),
                  Item(<<1, 0, 0, 0>>, 29),   Item(<<0, 0, 1, 0>>, 20),
                  Item(<<0, 1, 1, 1>>, 10),   Item(<<1, 1, 1, 0>>, 10),
                  Item(<<0, 0, 0, 1>>, 10),   Item(<<1, 0, 1, 1>>, 10) >>]

Eigenstate(op) ==
    CASE op = "exact_eigensolver.solve" -> NumPyEigenstate
      [] op = "svqe.solve" -> SVQEEigenstate
      [] op = "qaoa.solve" -> QAOAEigenstate

\* MinimumEigenOptimizer.solve(qp): the best of the eigenstate's samples.
MinimumEigenSolve(es) ==
    LET samples == {Reversed(es.items[i][1]) : i \in 1..Len(es.items)}
        x == Best(samples)
    IN  [x |-> x, fval |-> Value(x),
         status |-> IF Violation(x) = 0 THEN "SUCCESS" ELSE "INFEASIBLE",
         eigenstate |-> es]

(***************************************************************************)
(* print_result (portfolio notebook, cell [5]).                            *)
(***************************************************************************)
\* eigenstate.binary_probabilities() if isinstance(eigenstate,
\* QuasiDistribution) else {k: np.abs(v) ** 2 for k, v in to_dict().items()}
BinaryProbabilities(es) ==
    IF es.kind = "QuasiDistribution"
    THEN es.items
    ELSE [i \in 1..Len(es.items) |->
             <<es.items[i][1], es.items[i][2] * es.items[i][2]>>]

\* sorted(probabilities.items(), key=lambda x: x[1], reverse=True): a stable
\* sort, items of equal probability keep their order.
RECURSIVE InsertDesc(_, _)
InsertDesc(e, s) ==
    IF s = <<>> THEN <<e>>
    ELSE IF Head(s)[2] >= e[2] THEN <<Head(s)>> \o InsertDesc(e, Tail(s))
    ELSE <<e>> \o s

\* Variant that leaves the items in the order of the dictionary.
SortedDesc_none(items) == items
RECURSIVE SortedDesc(_)
SortedDesc(items) ==
    IF items = <<>> THEN <<>>
    ELSE InsertDesc(items[Len(items)], SortedDesc(SubSeq(items, 1, Len(items) - 1)))

\* Source lines print_result executes before the loop, and per loop pass.
PrologueLines(es) ==
    <<188, 189, 190, 192>>
        \o (IF es.kind = "QuasiDistribution" THEN <<194>> ELSE <<196>>)
        \o <<198, 199, 200, 201>>

LoopLines == <<203, 204, 205, 206>>

\* The items one loop pass leaves to the following passes.
\* Variant that drops an item per pass.
Remaining_skip(items) == IF Len(items) > 1 THEN Tail(Tail(items)) ELSE <<>>
Remaining(items) == Tail(items)

(***************************************************************************)
(* Excited-states notebook: the H2 spectrum, the filters, the solvers.     *)
(* Energies are in units of 1e-9 Hartree, observables in units of 1e-8.    *)
(***************************************************************************)
Abs(a) == IF a < 0 THEN -a ELSE a

\* np.isclose(a, b): |a - b| <= atol + rtol * |b|, atol = 1e-8, rtol = 1e-5.
ATol == 1
RTolInverse == 100000
IsClose(a, b) == Abs(a - b) <= ATol + (Abs(b) \div RTolInverse)

\* The literals 2.0 and 0.0 of filter_criterion.
TwoParticles == 200000000
ZeroMagnetization == 0

\* aux_values: observable name -> (value, metadata).
AuxValues(n, s2, m) ==
    [ParticleNumber |-> <<n, {}>>,
     AngularMomentum |-> <<s2, {}>>,
     Magnetization |-> <<m, {}>>]

Eigenpair(psi, e, n, s2, m) ==
    [eigenstate |-> psi, eigenvalue |-> e, aux_values |-> AuxValues(n, s2, m)]

\* def filter_criterion(eigenstate, eigenvalue, aux_values)
\* Variant that reads the particle number only.
filter_criterion_particles(eigenstate_, eigenvalue, aux_values) ==
    IsClose(aux_values["ParticleNumber"][1], TwoParticles)
filter_criterion(eigenstate_, eigenvalue, aux_values) ==
    /\ IsClose(aux_values["ParticleNumber"][1], TwoParticles)
    /\ IsClose(aux_values["Magnetization"][1], ZeroMagnetization)

\* es_problem.get_default_filter_criterion(): the number of particles of the
\* problem, and "the spin is also used as a filter and only singlet states
\* are shown".
\* Variant that does not look at the spin.
default_filter_criterion_no_spin(eigenstate_, eigenvalue, aux_values) ==
    IsClose(aux_values["ParticleNumber"][1], TwoParticles)
default_filter_criterion(eigenstate_, eigenvalue, aux_values) ==
    /\ IsClose(aux_values["ParticleNumber"][1], TwoParticles)
    /\ IsClose(aux_values["AngularMomentum"][1], 0)

\* The eigenstates with 2 particles and magnetization 0, as cell [6] prints
\* them: energy, # Particles, S^2, M.
RecordedStates ==
    { Eigenpair("psi0", -1857275030, 200000000, 0, 0),
      Eigenpair("psi1", -1244584550, 200000000, 200000000, 0),
      Eigenpair("psi2", -882722150, 200000000, 0, 0),
      Eigenpair("psi3", -224911253, 200000000, 0, 0) }

\* Eigenstates of the same Hamiltonian with "the incorrect number of
\* particles" or "the wrong magnetization": the vacuum and the two other
\* components of the triplet.
OtherSectorStates ==
    { Eigenpair("vac", 0, 0, 0, 0),
      Eigenpair("psi1+", -1244584550, 200000000, 200000000, 100000000),
      Eigenpair("psi1-", -1244584550, 200000000, 200000000, -100000000) }

\* NumPyEigensolver(k=4, filter_criterion=...)
K == 4
NumPyEigensolver(k, filter) ==
    [status |-> "NumPyEigensolver", k |-> k, filter_criterion |-> filter]

Accepts(filter, st) ==
    IF filter = "default"
    THEN default_filter_criterion(st.eigenstate, st.eigenvalue, st.aux_values)
    ELSE filter_criterion(st.eigenstate, st.eigenvalue, st.aux_values)

\* The eigenpairs in order of ascending eigenvalue.
RECURSIVE Ascending(_)
Ascending(states) ==
    IF states = {} THEN <<>>
    ELSE LET lowest == CHOOSE st \in states :
                           \A t \in states : st.eigenvalue <= t.eigenvalue
         IN  <<lowest>> \o Ascending(states \ {lowest})

\* ExcitedStatesEigensolver(mapper, numpy_solver).solve(es_problem): exact
\* diagonalisation, the first k eigenpairs that pass the filter.
\* Variant that does not apply the filter.
NumPySolve_unfiltered(numpy_solver, es_problem) ==
    LET sorted == Ascending(es_problem.spectrum)
    IN  [status |-> "EigenstateResult",
         states |-> SubSeq(sorted, 1,
                           IF Len(sorted) < numpy_solver.k
                           THEN Len(sorted) ELSE numpy_solver.k)]
NumPySolve(numpy_solver, es_problem) ==
    LET kept == {st \in es_problem.spectrum :
                    Accepts(numpy_solver.filter_criterion, st)}
        sorted == Ascending(kept)
    IN  [status |-> "EigenstateResult",
         states |-> SubSeq(sorted, 1,
                           IF Len(sorted) < numpy_solver.k
                           THEN Len(sorted) ELSE numpy_solver.k)]

\* solver = VQE(estimator, ansatz, SLSQP()); initial_point is None until set.
VQE(estimator, ansatz, optimizer) ==
    [status |-> "VQE", estimator |-> estimator, ansatz |-> ansatz,
     optimizer |-> optimizer, initial_point |-> "None"]

\* gse = GroundStateEigensolver(mapper, solver)
GroundStateEigensolver(mapper, solver) ==
    [status |-> "GroundStateEigensolver", mapper |-> mapper, solver |-> solver]

\* QEOM(gse, estimator, "sd", EvaluationRule.ALL)
QEOM(ground_state_solver, estimator, excitations, aux_eval_rules) ==
    [status |-> "QEOM", ground_state_solver |-> ground_state_solver,
     estimator |-> estimator, excitations |-> excitations,
     aux_eval_rules |-> aux_eval_rules]

\* The ground state the VQE of gse prepares, as cell [5] prints it.
GroundStateSolve(ground_state_solver) ==
    Eigenpair(ground_state_solver.solver.status, -1857275030, 200000000, 0, 0)

\* The qEOM excitation energies and the observables of the excited states:
\* the recorded excited-state energies less the recorded ground state energy.
ExcitationEnergies == <<612688274, 974550673, 1632361571>>
ExcitedObservables ==
    << <<200000000, 200000000, 0>>, <<200000000, 0, 0>>, <<200000000, 0, 0>> >>

\* qeom_excited_states_solver.solve(es_problem): the ground state of the
\* ground state solver, then the excitation energies on top of it.
\* Variant that reports the excitation energies themselves.
QEOMSolve_absolute(qeom, es_problem) ==
    LET ground == GroundStateSolve(qeom.ground_state_solver)
    IN  [status |-> "EigenstateResult",
         states |-> <<ground>> \o
             [i \in 1..Len(ExcitationEnergies) |->
                 Eigenpair("qeom", ExcitationEnergies[i],
                           ExcitedObservables[i][1], ExcitedObservables[i][2],
                           ExcitedObservables[i][3])]]
QEOMSolve(qeom, es_problem) ==
    LET ground == GroundStateSolve(qeom.ground_state_solver)
    IN  [status |-> "EigenstateResult",
         states |-> <<ground>> \o
             [i \in 1..Len(ExcitationEnergies) |->
                 Eigenpair("qeom", ground.eigenvalue + ExcitationEnergies[i],
                           ExcitedObservables[i][1], ExcitedObservables[i][2],
                           ExcitedObservables[i][3])]]

(***************************************************************************)
(* The notebooks: code cells in document order, statements in order.       *)
(* S(op, lib, line): lib says that the statement calls into a library.     *)
(***************************************************************************)
GroverNotebook ==
    << << S("import", FALSE, 81) >>,
       << S("model = Model()", TRUE, 112),
          S("x0 = model.binary_var", TRUE, 113),
          S("x1 = model.binary_var", TRUE, 114),
          S("x2 = model.binary_var", TRUE, 115),
          S("model.minimize", TRUE, 116),
          S("qp = from_docplex_mp(model)", TRUE, 117),
          S("print(qp.prettyprint())", TRUE, 118) >>,
       << S("grover_optimizer = GroverOptimizer", TRUE, 144),
          S("grover_optimizer.solve", TRUE, 145),
          S("print(results.prettyprint())", TRUE, 146) >>,
       << S("exact_solver = MinimumEigenOptimizer", TRUE, 195),
          S("exact_solver.solve", TRUE, 196),
          S("print(exact_result.prettyprint())", TRUE, 197) >>,
       << S("import", FALSE, 231),
          S("%qiskit_version_table", TRUE, 233),
          S("%qiskit_copyright", TRUE, 234) >>,
       << >> >>

PortfolioNotebook ==
    << << S("import", FALSE, 57) >>,
       << S("num_assets = 4", FALSE, 92),
          S("seed = 123", FALSE, 93),
          S("stocks = [...]", FALSE, 96),
          S("data = RandomDataProvider", TRUE, 97),
          S("data.run()", TRUE, 103),
          S("mu = data.get_period_return_mean_vector()", TRUE, 104),
          S("sigma = data.get_period_return_covariance_matrix()", TRUE, 105) >>,
       << S("plt.imshow", TRUE, 132),
          S("plt.show()", TRUE, 133) >>,
       << S("q = 0.5", FALSE, 158),
          S("budget = num_assets // 2", FALSE, 159),
          S("penalty = num_assets", FALSE, 160),
          S("portfolio = PortfolioOptimization", TRUE, 162),
          S("qp = portfolio.to_quadratic_program()", TRUE, 165),
          S("qp", FALSE, 166) >>,
       << S("def print_result", FALSE, 187) >>,
       << S("exact_mes = NumPyMinimumEigensolver()", TRUE, 243),
          S("exact_eigensolver = MinimumEigenOptimizer", TRUE, 244),
          S("exact_eigensolver.solve", TRUE, 246),
          S("print_result", FALSE, 248) >>,
       << S("import", FALSE, 294),
          S("algorithm_globals.random_seed = 1234", FALSE, 296),
          S("cobyla = COBYLA()", TRUE, 298),
          S("cobyla.set_options", TRUE, 299),
          S("ry = TwoLocal", TRUE, 300),
          S("svqe_mes = SamplingVQE", TRUE, 301),
          S("svqe = MinimumEigenOptimizer", TRUE, 302),
          S("svqe.solve", TRUE, 303),
          S("print_result", FALSE, 305) >>,
       << S("algorithm_globals.random_seed = 1234", FALSE, 356),
          S("cobyla = COBYLA()", TRUE, 358),
          S("cobyla.set_options", TRUE, 359),
          S("qaoa_mes = QAOA", TRUE, 360),
          S("qaoa = MinimumEigenOptimizer", TRUE, 361),
          S("qaoa.solve", TRUE, 362),
          S("print_result", FALSE, 364) >>,
       << S("import", FALSE, 403),
          S("%qiskit_version_table", TRUE, 405),
          S("%qiskit_copyright", TRUE, 406) >>,
       << >> >>

ExcitedStatesNotebook ==
    << << S("import", FALSE, 503),
          S("driver = PySCFDriver", TRUE, 506),
          S("es_problem = driver.run()", TRUE, 514) >>,
       << S("import", FALSE, 530),
          S("mapper = JordanWignerMapper()", TRUE, 532) >>,
       << S("import", FALSE, 555),
          S("numpy_solver = NumPyEigensolver", TRUE, 557) >>,
       << S("import", FALSE, 611),
          S("ansatz = UCCSD", TRUE, 617),
          S("estimator = Estimator()", TRUE, 628),
          S("solver = VQE", TRUE, 631),
          S("solver.initial_point = [0.0] * ansatz.num_parameters", FALSE, 632),
          S("gse = GroundStateEigensolver", TRUE, 633),
          S("qeom_excited_states_solver = QEOM", TRUE, 636) >>,
       << S("import", FALSE, 764),
          S("numpy_excited_states_solver = ExcitedStatesEigensolver", TRUE, 766),
          S("numpy_results = numpy_excited_states_solver.solve", TRUE, 767),
          S("qeom_results = qeom_excited_states_solver.solve", TRUE, 769),
          S("print(numpy_results)", TRUE, 771),
          S("print", FALSE, 772),
          S("print(qeom_results)", TRUE, 773) >>,
       << S("import", FALSE, 851),
          S("def filter_criterion", FALSE, 854),
          S("new_numpy_solver = NumPyEigensolver", TRUE, 860),
          S("new_numpy_excited_states_solver = ExcitedStatesEigensolver", TRUE, 861),
          S("new_numpy_results = new_numpy_excited_states_solver.solve", TRUE, 862),
          S("print(new_numpy_results)", TRUE, 864) >>,
       << S("import", FALSE, 898),
          S("%qiskit_version_table", TRUE, 900),
          S("%qiskit_copyright", TRUE, 901) >> >>

QobjNotebook ==
    << << S("import", FALSE, 10) >>,
       << S("import", FALSE, 20), S("import", FALSE, 22) >>,
       << S("print(Qobj())", TRUE, 50) >>,
       << S("print(Qobj([[1],[2],[3],[4],[5]]))", TRUE, 74) >>,
       << S("x = np.array([[1, 2, 3, 4, 5]])", TRUE, 94),
          S("print(Qobj(x))", TRUE, 95) >>,
       << S("r = np.random.rand(8, 8)", TRUE, 130),
          S("print(Qobj(r))", TRUE, 131) >>,
       << S("basis(7,5)", TRUE, 171) >>,
       << S("coherent(10,0.7-0.5j)", TRUE, 206) >>,
       << S("destroy(4)", TRUE, 243) >>,
       << S("sigmaz()", TRUE, 270) >>,
       << S("jmat(5/2.0,'+')", TRUE, 301) >>,
       << S("q = destroy(4)", TRUE, 330), S("q.dims", FALSE, 331) >>,
       << S("q.shape", FALSE, 352) >>,
       << S("q.type", FALSE, 373) >>,
       << S("q.isherm", FALSE, 394) >>,
       << S("q.data", FALSE, 416) >>,
       << S("q = destroy(4)", TRUE, 445), S("x = sigmax()", TRUE, 446),
          S("q + 5", TRUE, 447) >>,
       << S("x * x", TRUE, 474) >>,
       << S("q ** 3", TRUE, 503) >>,
       << S("x / np.sqrt(2)", TRUE, 530) >>,
       << S("basis(5, 3)", TRUE, 568) >>,
       << S("basis(5, 3).dag()", TRUE, 594) >>,
       << S("coherent_dm(5, 1)", TRUE, 624) >>,
       << S("coherent_dm(5, 1).diag()", TRUE, 645) >>,
       << S("coherent_dm(5, 1).diag()", TRUE, 666) >>,
       << S("coherent_dm(5, 1).norm()", TRUE, 687) >>,
       << S("coherent_dm(5, 1).full()", TRUE, 717) >>,
       << S("coherent_dm(5, 1).full()", TRUE, 747) >>,
       << S("coherent_dm(5, 1).tr()", TRUE, 768) >>,
       << S("(basis(4, 2) + basis(4, 1)).unit()", TRUE, 797) >>,
       << >> >>

Notebooks == {"grover", "portfolio", "excited_states", "qobj"}

Notebook(n) ==
    CASE n = "grover" -> GroverNotebook
      [] n = "portfolio" -> PortfolioNotebook
      [] n = "excited_states" -> ExcitedStatesNotebook
      [] n = "qobj" -> QobjNotebook

\* Whether the statement is inside a try block whose handler swallows the
\* exception.  No cell of any notebook contains a try statement.
\* Variant with a try block around the call of GroverOptimizer.solve.
InTry_solve(n, c, s) == Notebook(n)[c][s].op = "grover_optimizer.solve"
InTry(n, c, s) == FALSE

\* The library call inside the loop of print_result.
EvaluateCall == S("portfolio.to_quadratic_program().objective.evaluate", TRUE, 205)

(***************************************************************************)
(* The kernel: one notebook, cells in document order.                      *)
(***************************************************************************)
Init ==
    /\ nb \in Notebooks
    /\ cell = 1
    /\ stmt = 1
    /\ err = NoError
    /\ lastOutcome = "ok"
    /\ gpc = "idle"
    /\ y = 0
    /\ optimum = <<0, 0, 0>>
    /\ noProgress = 0
    /\ measured = {}
    /\ results = None
    /\ exact_result = None
    /\ result = None
    /\ ppc = "idle"
    /\ eigenstate = None
    /\ probabilities = <<>>
    /\ printed = <<>>
    /\ trace = <<>>
    /\ globals = <<>>
    /\ portfolio = None
    /\ qp = None
    /\ filterCall = None

Running == err = NoError /\ cell <= Len(Notebook(nb))
AtStmt == Running /\ stmt <= Len(Notebook(nb)[cell])
Cur == Notebook(nb)[cell][stmt]

\* The calls whose inner steps are modelled.
ModelledCalls ==
    {"grover_optimizer.solve", "exact_solver.solve", "exact_eigensolver.solve",
     "svqe.solve", "qaoa.solve", "print_result"}
        \cup ParameterStatements
        \cup {"portfolio = PortfolioOptimization",
              "qp = portfolio.to_quadratic_program()"}
        \cup {"es_problem = driver.run()", "numpy_solver = NumPyEigensolver",
              "numpy_results = numpy_excited_states_solver.solve",
              "new_numpy_solver = NumPyEigensolver",
              "new_numpy_results = new_numpy_excited_states_solver.solve"}
        \cup {"solver = VQE",
              "solver.initial_point = [0.0] * ansatz.num_parameters",
              "gse = GroundStateEigensolver",
              "qeom_excited_states_solver = QEOM",
              "qeom_results = qeom_excited_states_solver.solve"}

\* A statement runs to its end.
Exec ==
    /\ UNCHANGED <<extVars, filterCall>>
    /\ AtStmt
    /\ Cur.op \notin ModelledCalls
    /\ stmt' = stmt + 1
    /\ lastOutcome' = "ok"
    /\ UNCHANGED <<nb, cell, err, gpc, y, optimum, noProgress, measured,
                   results, exact_result, result, printVars>>

\* The library call of the statement raises.  Outside a try block the
\* exception ends the cell and is its output.
Raise ==
    /\ UNCHANGED <<extVars, filterCall>>
    /\ AtStmt
    /\ Cur.lib
    /\ Cur.op = "grover_optimizer.solve" => gpc = "idle"
    /\ lastOutcome' = "raise"
    /\ IF InTry(nb, cell, stmt)
       THEN stmt' = stmt + 1 /\ err' = err
       ELSE stmt' = stmt /\ err' = [op |-> Cur.op, line |-> Cur.line]
    /\ UNCHANGED <<nb, cell, gpc, y, optimum, noProgress, measured, results,
                   exact_result, result, printVars>>

\* The cell has no statement left: the kernel runs the next cell.
NextCell ==
    /\ UNCHANGED <<extVars, filterCall>>
    /\ Running
    /\ stmt = Len(Notebook(nb)[cell]) + 1
    /\ cell' = cell + 1
    /\ stmt' = 1
    /\ UNCHANGED <<nb, err, lastOutcome, gpc, y, optimum, noProgress, measured,
                   results, exact_result, result, printVars>>

(***************************************************************************)
(* results = grover_optimizer.solve(qp): Grover Adaptive Search.           *)
(***************************************************************************)
\* A first assignment is sampled; its value is the first threshold.
GASStart ==
    /\ UNCHANGED <<extVars, filterCall>>
    /\ AtStmt
    /\ Cur.op = "grover_optimizer.solve"
    /\ gpc = "idle"
    /\ \E x1 \in Assignments :
          /\ y' = Q(x1)
          /\ optimum' = x1
          /\ measured' = {x1}
    /\ noProgress' = 0
    /\ gpc' = "run"
    /\ UNCHANGED <<kernelVars, results, exact_result, result, printVars>>

\* One iteration: Grover search with A_y and O, then a measurement.  The
\* algorithm is randomised: any assignment may be measured.
GASIterate ==
    /\ UNCHANGED <<extVars, filterCall>>
    /\ AtStmt
    /\ gpc = "run"
    /\ noProgress < NumIterations
    /\ \E x \in Assignments :
          LET reg == ValueRegister(Q(x) - y)
          IN  /\ y' = NextThreshold(y, reg)
              /\ optimum' = IF Oracle(reg) THEN x ELSE optimum
              /\ noProgress' = NextNoProgress(noProgress, reg)
              /\ measured' = measured \cup {x}
    /\ UNCHANGED <<kernelVars, gpc, results, exact_result, result, printVars>>

\* num_iterations iterations without progress: solve() returns.
GASFinish ==
    /\ UNCHANGED <<extVars, filterCall>>
    /\ AtStmt
    /\ gpc = "run"
    /\ noProgress >= NumIterations
    /\ results' = [x |-> optimum, fval |-> Q(optimum), status |-> "SUCCESS"]
    /\ gpc' = "done"
    /\ stmt' = stmt + 1
    /\ lastOutcome' = "ok"
    /\ UNCHANGED <<nb, cell, err, y, optimum, noProgress, measured,
                   exact_result, result, printVars>>

\* exact_result = exact_solver.solve(qp)
ExactSolve ==
    /\ UNCHANGED <<extVars, filterCall>>
    /\ AtStmt
    /\ Cur.op = "exact_solver.solve"
    /\ exact_result' = [x |-> ExactArgmin(Assignments),
                        fval |-> Q(ExactArgmin(Assignments)),
                        status |-> "SUCCESS"]
    /\ stmt' = stmt + 1
    /\ lastOutcome' = "ok"
    /\ UNCHANGED <<nb, cell, err, gasVars, result, printVars>>

(***************************************************************************)
(* Portfolio notebook: the parameters, the problem, the three solves and   *)
(* print_result.                                                           *)
(***************************************************************************)
\* num_assets = 4 / q = 0.5 / budget = num_assets // 2 / penalty = num_assets
Assign ==
    /\ AtStmt
    /\ Cur.op \in ParameterStatements
    /\ globals' = Assigned(Cur.op, globals)
    /\ stmt' = stmt + 1
    /\ lastOutcome' = "ok"
    /\ UNCHANGED <<nb, cell, err, gasVars, exact_result, result, printVars,
                   portfolio, qp, filterCall>>

\* portfolio = PortfolioOptimization(...)
BuildPortfolio ==
    /\ AtStmt
    /\ Cur.op = "portfolio = PortfolioOptimization"
    /\ portfolio' = PortfolioOptimization(globals)
    /\ stmt' = stmt + 1
    /\ lastOutcome' = "ok"
    /\ UNCHANGED <<nb, cell, err, gasVars, exact_result, result, printVars,
                   globals, qp, filterCall>>

\* qp = portfolio.to_quadratic_program()
BuildQP ==
    /\ AtStmt
    /\ Cur.op = "qp = portfolio.to_quadratic_program()"
    /\ qp' = ToQuadraticProgram(portfolio)
    /\ stmt' = stmt + 1
    /\ lastOutcome' = "ok"
    /\ UNCHANGED <<nb, cell, err, gasVars, exact_result, result, printVars,
                   globals, portfolio, filterCall>>

\* result = exact_eigensolver.solve(qp) / svqe.solve(qp) / qaoa.solve(qp)
PortfolioSolve ==
    /\ UNCHANGED <<extVars, filterCall>>
    /\ AtStmt
    /\ Cur.op \in {"exact_eigensolver.solve", "svqe.solve", "qaoa.solve"}
    /\ result' = MinimumEigenSolve(Eigenstate(Cur.op))
    /\ stmt' = stmt + 1
    /\ lastOutcome' = "ok"
    /\ UNCHANGED <<nb, cell, err, gasVars, exact_result, printVars>>

\* print_result(result), up to the sort.
PrStart ==
    /\ UNCHANGED <<extVars, filterCall>>
    /\ AtStmt
    /\ Cur.op = "print_result"
    /\ ppc \in {"idle", "done"}
    /\ eigenstate' = result.eigenstate
    /\ probabilities' = SortedDesc(BinaryProbabilities(eigenstate'))
    /\ printed' = <<>>
    /\ trace' = PrologueLines(eigenstate')
    /\ ppc' = "loop"
    /\ UNCHANGED <<kernelVars, gasVars, exact_result, result>>

\* One pass of `for k, v in probabilities`.
PrRow ==
    /\ UNCHANGED <<extVars, filterCall>>
    /\ AtStmt
    /\ ppc = "loop"
    /\ probabilities # <<>>
    /\ LET k == Head(probabilities)[1]
           v == Head(probabilities)[2]
           x == Reversed(k)
       IN  printed' = Append(printed, [x |-> x, value |-> Value(x),
                                       probability |-> v])
    /\ probabilities' = Remaining(probabilities)
    /\ trace' = trace \o LoopLines
    /\ UNCHANGED <<kernelVars, gasVars, exact_result, result, ppc, eigenstate>>

\* objective.evaluate(x) raises during a pass of the loop.
PrRaise ==
    /\ UNCHANGED <<extVars, filterCall>>
    /\ AtStmt
    /\ ppc = "loop"
    /\ probabilities # <<>>
    /\ lastOutcome' = "raise"
    /\ trace' = trace \o <<203, 204, 205>>
    /\ IF InTry(nb, cell, stmt)
       THEN ppc' = "done" /\ stmt' = stmt + 1 /\ err' = err
       ELSE /\ ppc' = "raised"
            /\ stmt' = stmt
            /\ err' = [op |-> EvaluateCall.op, line |-> EvaluateCall.line]
    /\ UNCHANGED <<nb, cell, gasVars, exact_result, result, eigenstate,
                   probabilities, printed>>

\* The loop is exhausted: print_result returns.
PrReturn ==
    /\ UNCHANGED <<extVars, filterCall>>
    /\ AtStmt
    /\ ppc = "loop"
    /\ probabilities = <<>>
    /\ ppc' = "done"
    /\ stmt' = stmt + 1
    /\ lastOutcome' = "ok"
    /\ UNCHANGED <<nb, cell, err, gasVars, exact_result, result, eigenstate,
                   probabilities, printed, trace>>

(***************************************************************************)
(* Excited-states notebook.  Its globals are kept in `globals` by name.    *)
(***************************************************************************)
Global(name) == IF name \in DOMAIN globals THEN globals[name] ELSE None

\* es_problem = driver.run(): the Hamiltonian of H2 and its eigenstates.
DriverRun ==
    /\ AtStmt
    /\ Cur.op = "es_problem = driver.run()"
    /\ \E others \in SUBSET OtherSectorStates :
          globals' = ("es_problem" :>
                         [status |-> "ElectronicStructureProblem",
                          spectrum |-> RecordedStates \cup others]) @@ globals
    /\ stmt' = stmt + 1
    /\ lastOutcome' = "ok"
    /\ UNCHANGED <<nb, cell, err, gasVars, exact_result, result, printVars,
                   portfolio, qp, filterCall>>

\* numpy_solver = NumPyEigensolver(k=4, filter_criterion=<default>)
\* new_numpy_solver = NumPyEigensolver(k=4, filter_criterion=filter_criterion)
BuildNumPySolver ==
    /\ AtStmt
    /\ \/ /\ Cur.op = "numpy_solver = NumPyEigensolver"
          /\ globals' = ("numpy_solver" :> NumPyEigensolver(K, "default"))
                            @@ globals
       \/ /\ Cur.op = "new_numpy_solver = NumPyEigensolver"
          /\ globals' = ("new_numpy_solver" :>
                             NumPyEigensolver(K, "filter_criterion")) @@ globals
    /\ stmt' = stmt + 1
    /\ lastOutcome' = "ok"
    /\ UNCHANGED <<nb, cell, err, gasVars, exact_result, result, printVars,
                   portfolio, qp, filterCall>>

\* numpy_results = numpy_excited_states_solver.solve(es_problem)
\* new_numpy_results = new_numpy_excited_states_solver.solve(es_problem)
NumPyExcitedStatesSolve ==
    /\ AtStmt
    /\ \/ /\ Cur.op = "numpy_results = numpy_excited_states_solver.solve"
          /\ globals' = ("numpy_results" :>
                             NumPySolve(globals["numpy_solver"],
                                        globals["es_problem"])) @@ globals
       \/ /\ Cur.op = "new_numpy_results = new_numpy_excited_states_solver.solve"
          /\ globals' = ("new_numpy_results" :>
                             NumPySolve(globals["new_numpy_solver"],
                                        globals["es_problem"])) @@ globals
    /\ stmt' = stmt + 1
    /\ lastOutcome' = "ok"
    /\ UNCHANGED <<nb, cell, err, gasVars, exact_result, result, printVars,
                   portfolio, qp, filterCall>>

\* solver = VQE(estimator, ansatz, SLSQP())
BuildVQE ==
    /\ AtStmt
    /\ Cur.op = "solver = VQE"
    /\ globals' = ("solver" :> VQE("Estimator", "UCCSD", "SLSQP")) @@ globals
    /\ stmt' = stmt + 1
    /\ lastOutcome' = "ok"
    /\ UNCHANGED <<nb, cell, err, gasVars, exact_result, result, printVars,
                   portfolio, qp, filterCall>>

\* solver.initial_point = [0.0] * ansatz.num_parameters
SetInitialPoint ==
    /\ AtStmt
    /\ Cur.op = "solver.initial_point = [0.0] * ansatz.num_parameters"
    /\ globals' = [globals EXCEPT !["solver"].initial_point = "zeros"]
    /\ stmt' = stmt + 1
    /\ lastOutcome' = "ok"
    /\ UNCHANGED <<nb, cell, err, gasVars, exact_result, result, printVars,
                   portfolio, qp, filterCall>>

\* gse = GroundStateEigensolver(mapper, solver)
BuildGSE ==
    /\ AtStmt
    /\ Cur.op = "gse = GroundStateEigensolver"
    /\ globals' = ("gse" :> GroundStateEigensolver("JordanWignerMapper",
                                                   globals["solver"]))
                      @@ globals
    /\ stmt' = stmt + 1
    /\ lastOutcome' = "ok"
    /\ UNCHANGED <<nb, cell, err, gasVars, exact_result, result, printVars,
                   portfolio, qp, filterCall>>

\* qeom_excited_states_solver = QEOM(gse, estimator, "sd", EvaluationRule.ALL)
BuildQEOM ==
    /\ AtStmt
    /\ Cur.op = "qeom_excited_states_solver = QEOM"
    /\ globals' = ("qeom_excited_states_solver" :>
                       QEOM(globals["gse"], "Estimator", "sd", "ALL")) @@ globals
    /\ stmt' = stmt + 1
    /\ lastOutcome' = "ok"
    /\ UNCHANGED <<nb, cell, err, gasVars, exact_result, result, printVars,
                   portfolio, qp, filterCall>>

\* qeom_results = qeom_excited_states_solver.solve(es_problem)
QEOMExcitedStatesSolve ==
    /\ AtStmt
    /\ Cur.op = "qeom_results = qeom_excited_states_solver.solve"
    /\ globals' = ("qeom_results" :>
                       QEOMSolve(globals["qeom_excited_states_solver"],
                                 globals["es_problem"])) @@ globals
    /\ stmt' = stmt + 1
    /\ lastOutcome' = "ok"
    /\ UNCHANGED <<nb, cell, err, gasVars, exact_result, result, printVars,
                   portfolio, qp, filterCall>>

Next ==
    \/ Exec
    \/ Raise
    \/ NextCell
    \/ GASStart
    \/ GASIterate
    \/ GASFinish
    \/ ExactSolve
    \/ Assign
    \/ BuildPortfolio
    \/ BuildQP
    \/ PortfolioSolve
    \/ PrStart
    \/ PrRow
    \/ PrRaise
    \/ PrReturn
    \/ DriverRun
    \/ BuildNumPySolver
    \/ NumPyExcitedStatesSolve
    \/ BuildVQE
    \/ SetInitialPoint
    \/ BuildGSE
    \/ BuildQEOM
    \/ QEOMExcitedStatesSolve

Spec == Init /\ [][Next]_vars

\* The kernel is a single thread that keeps running the call it is in.
LiveSpec == Spec /\ WF_vars(GASIterate) /\ WF_vars(GASFinish)

(***************************************************************************)
(* filter_criterion on its own: one call on arguments from bounded sets,   *)
(* made by the solve of cell [6].                                          *)
(***************************************************************************)
FilterEigenstates == {"psi0", "psi1"}
FilterEigenvalues == {-1857275030, 0}
FilterParticleNumbers ==
    {100000000, 199997998, 199997999, 200000000, 200002001, 200002002}
FilterSpins == {0, 200000000}
FilterMagnetizations == {-100000000, -2, -1, 0, 1, 2}

FilterInit ==
    /\ nb = "excited_states"
    /\ cell = 6
    /\ stmt = 5
    /\ err = NoError
    /\ lastOutcome = "ok"
    /\ gpc = "idle"
    /\ y = 0
    /\ optimum = <<0, 0, 0>>
    /\ noProgress = 0
    /\ measured = {}
    /\ results = None
    /\ exact_result = None
    /\ result = None
    /\ ppc = "idle"
    /\ eigenstate = None
    /\ probabilities = <<>>
    /\ printed = <<>>
    /\ trace = <<>>
    /\ globals = <<>>
    /\ portfolio = None
    /\ qp = None
    /\ \E psi \in FilterEigenstates, e \in FilterEigenvalues,
          n \in FilterParticleNumbers, s2 \in FilterSpins,
          m \in FilterMagnetizations :
          filterCall = [status |-> "called",
                        eigenstate |-> psi,
                        eigenvalue |-> e,
                        aux_values |-> AuxValues(n, s2, m),
                        returned |-> FALSE]

\* return np.isclose(...) and np.isclose(...)
FilterReturn ==
    /\ filterCall.status = "called"
    /\ filterCall' =
          [filterCall EXCEPT
              !.status = "returned",
              !.returned = filter_criterion(filterCall.eigenstate,
                                            filterCall.eigenvalue,
                                            filterCall.aux_values)]
    /\ UNCHANGED <<kernelVars, gasVars, exact_result, result, printVars,
                   extVars>>

FilterNext == FilterReturn

FilterSpec == FilterInit /\ [][FilterNext]_vars

(***************************************************************************)
(* print_result on its own: one call, in cell [6], on an eigenstate from   *)
(* a bounded set: up to MaxItems bitstrings in any order, amplitudes in    *)
(* -MaxWeight..MaxWeight or quasi-probabilities in 0..MaxWeight.           *)
(***************************************************************************)
MaxItems == 3
MaxWeight == 2
PrintKeys == {<<1, 1, 0, 0>>, <<1, 0, 0, 1>>, <<0, 1, 1, 0>>}

DistinctKeys(items) ==
    \A i, j \in 1..Len(items) : i # j => items[i][1] # items[j][1]

ItemsOver(weights) ==
    {items \in UNION {[1..n -> PrintKeys \X weights] : n \in 1..MaxItems} :
        DistinctKeys(items)}

PrintEigenstates ==
    {[kind |-> "Statevector", items |-> items] :
        items \in ItemsOver(-MaxWeight..MaxWeight)}
    \cup
    {[kind |-> "QuasiDistribution", items |-> items] :
        items \in ItemsOver(0..MaxWeight)}

PrintInit ==
    /\ nb = "portfolio"
    /\ cell = 6
    /\ stmt = 4
    /\ err = NoError
    /\ lastOutcome = "ok"
    /\ gpc = "idle"
    /\ y = 0
    /\ optimum = <<0, 0, 0>>
    /\ noProgress = 0
    /\ measured = {}
    /\ results = None
    /\ exact_result = None
    /\ \E es \in PrintEigenstates : result = MinimumEigenSolve(es)
    /\ ppc = "idle"
    /\ eigenstate = None
    /\ probabilities = <<>>
    /\ printed = <<>>
    /\ trace = <<>>
    /\ globals = <<>>
    /\ portfolio = None
    /\ qp = None
    /\ filterCall = None

PrintNext ==
    \/ PrStart
    \/ PrRow
    \/ PrRaise
    \/ PrReturn

PrintSpec == PrintInit /\ [][PrintNext]_vars

(***************************************************************************)
(* Properties.                                                             *)
(***************************************************************************)
Solved(r) == r.status # "None"

\* The search space at threshold yy: the states the oracle flags.
SearchSpace(yy) == Flagged(yy)

\* The recorded "Optimal: selection [1. 0. 0. 1.], value -0.0149".
ReportedSelection == <<1, 0, 0, 1>>

RECURSIVE Repeat(_, _)
Repeat(s, n) == IF n = 0 THEN <<>> ELSE s \o Repeat(s, n - 1)

\* C1: when solve() reports x0=1, x1=0, x2=1 its objective value is -6, no
\* assignment of the 8 has a lower objective value and no other assignment
\* attains -6.
C1_ReportedIsOptimum ==
    (gpc = "done" /\ results.x = ReportedX) =>
        /\ results.fval = ReportedFval
        /\ \A x \in Assignments :
              /\ Q(x) >= ReportedFval
              /\ Q(x) = ReportedFval => x = ReportedX

C1_Witness ==
    gpc = "done" /\ results.x = ReportedX /\ results.fval = ReportedFval

\* C2 as stated: once both solvers have returned, the Grover result equals
\* the exact result (variable values, objective value, status).
C2_GroverEqualsExact ==
    (Solved(results) /\ Solved(exact_result)) => results = exact_result

\* C2 amended: the Grover result has status SUCCESS and a value no lower
\* than the exact one, and it equals the exact result exactly in the runs
\* that measured the optimal assignment.
C2_GroverEqualsExactIfMeasured ==
    (Solved(results) /\ Solved(exact_result)) =>
        /\ results.status = "SUCCESS"
        /\ exact_result.status = "SUCCESS"
        /\ results.fval >= exact_result.fval
        /\ (exact_result.x \in measured) <=> (results = exact_result)

C2_Witness ==
    Solved(results) /\ Solved(exact_result) /\ results = exact_result

\* C3: a run of solve() ends; it never makes more than num_iterations
\* iterations without progress, and it returns a result exactly when
\* num_iterations iterations have left y unchanged.
C3_Terminates ==
    /\ [](noProgress <= NumIterations)
    /\ [](gpc = "done" => noProgress = NumIterations /\ Solved(results))
    /\ [][gpc = "run" /\ gpc' = "run" /\ y' = y =>
             noProgress' = noProgress + 1]_vars
    /\ (gpc = "run" ~> gpc = "done")

C3_Witness == gpc = "done" /\ noProgress = NumIterations /\ Solved(results)

\* C4: the threshold is the best objective value measured so far, and an
\* iteration never raises it: y stays or is replaced by a lower value.
C4_ThresholdNeverIncreases ==
    /\ [](gpc # "idle" =>
            /\ optimum \in measured
            /\ y = Q(optimum)
            /\ \A x \in measured : y <= Q(x))
    /\ [][gpc = "run" => y' <= y]_vars

C4_Witness ==
    gpc = "run" /\ y < 0 /\ <<0, 0, 0>> \in measured /\ optimum # <<0, 0, 0>>

\* C5: at every threshold of a run the oracle flags a state if and only if
\* its shifted value Q(x) - y is negative.
C5_OracleFlagsNegatives ==
    gpc = "run" =>
        \A x \in Assignments : Oracle(ValueRegister(Q(x) - y)) <=> Q(x) - y < 0

C5_Witness ==
    gpc = "run" /\ SearchSpace(y) # {} /\ SearchSpace(y) # Assignments

RaisedCall ==
    IF ppc = "raised"
    THEN [op |-> EvaluateCall.op, line |-> EvaluateCall.line]
    ELSE [op |-> Cur.op, line |-> Cur.line]

\* C8: when a library call fails, the cell output is that call's exception
\* and nothing runs afterwards: the call is not retried and no later
\* statement of the cell is executed.
C8_FailurePropagates ==
    /\ [](lastOutcome = "raise" => err = RaisedCall)
    /\ [][lastOutcome # "raise"]_vars

C8_Witness ==
    /\ lastOutcome = "raise"
    /\ Cur.op = "grover_optimizer.solve"
    /\ stmt < Len(Notebook(nb)[cell])

\* C9 as stated: the statements print_result executes do not depend on the
\* data: every call executes what the first call (cell [6], one row) did.
C9_SameStatements ==
    ppc = "done" => trace = PrologueLines(NumPyEigenstate) \o LoopLines

\* The statement sequence of a call on an eigenstate of the given type with
\* n bitstrings.
TraceShape(kind, n) ==
    <<188, 189, 190, 192, IF kind = "QuasiDistribution" THEN 194 ELSE 196,
      198, 199, 200, 201>> \o Repeat(<<203, 204, 205, 206>>, n)

\* C9 amended: the statements print_result executes depend on its argument,
\* through the type of the eigenstate (the conditional) and the number of
\* its bitstrings (the loop), and on nothing else.
C9_StatementsByShape ==
    ppc = "done" =>
        trace = TraceShape(eigenstate.kind, Len(eigenstate.items))

C9_Witness == ppc = "done" /\ Len(printed) = 12

\* C10: each of the three solves reports the recorded selection, which
\* picks exactly budget = num_assets // 2 = 2 of the 4 assets.
C10_BudgetSpent ==
    Solved(result) =>
        /\ result.x = ReportedSelection
        /\ Len(result.x) = NumAssets
        /\ SumSeq(result.x) = Budget
        /\ Budget = 2

C10_Witness ==
    Solved(result) /\ result.eigenstate = QAOAEigenstate /\ ppc = "done"
        /\ eigenstate = QAOAEigenstate

\* Values of `penalty` other than the one cell [4] sets.
MaxPenalty == 8
PenaltyValues == 0..MaxPenalty

\* C11: the quadratic program handed to the solvers depends on the value of
\* `penalty`: some other value of the parameter gives another program.
C11_QPDependsOnPenalty ==
    Solved(qp) =>
        \E p \in PenaltyValues :
            ToQuadraticProgram(PortfolioOptimization(("penalty" :> p) @@ globals))
                # qp

\* The eigenvalues and the S^2 values of a result, in order.
Energies(r) == [i \in 1..Len(r.states) |-> r.states[i].eigenvalue]
SpinSquared(r) ==
    [i \in 1..Len(r.states) |-> r.states[i].aux_values["AngularMomentum"][1]]

\* C12 as stated: with k=4 and the default filter the solve returns four
\* states, the ground state and the first three excited states.
C12_FourStates ==
    Solved(Global("numpy_results")) =>
        Len(Global("numpy_results").states) = K

\* C12 amended: k=4 bounds the number of states; the default filter keeps
\* the singlet states only, so the solve returns three states, the ground
\* state and the two singlet excited states, with the recorded energies,
\* and the first excited state (S^2 = 2) is not among them.
C12_ThreeSingletStates ==
    Solved(Global("numpy_results")) =>
        LET r == Global("numpy_results")
        IN  /\ Len(r.states) = 3
            /\ Len(r.states) <= K
            /\ Energies(r) = <<-1857275030, -882722150, -224911253>>
            /\ SpinSquared(r) = <<0, 0, 0>>
            /\ \A st \in globals["es_problem"].spectrum :
                  (st.eigenstate = "psi1") =>
                      /\ st.eigenvalue < r.states[2].eigenvalue
                      /\ \A i \in 1..Len(r.states) : r.states[i] # st

C12_Witness ==
    /\ Solved(Global("numpy_results"))
    /\ Len(Global("numpy_results").states) = 3
    /\ globals["es_problem"].spectrum = RecordedStates \cup OtherSectorStates

\* C13: filter_criterion accepts a state if and only if its particle number
\* is within 2.001e-5 of 2 and its magnetization within 1e-8 of 0, and the
\* decision is the same for every eigenstate, eigenvalue and spin.
C13_FilterByParticlesAndMagnetization ==
    filterCall.status = "returned" =>
        LET n == filterCall.aux_values["ParticleNumber"][1]
            m == filterCall.aux_values["Magnetization"][1]
        IN  /\ filterCall.returned <=>
                  (Abs(n - 200000000) <= 2001 /\ Abs(m) <= 1)
            /\ \A psi \in FilterEigenstates, e \in FilterEigenvalues,
                  s2 \in FilterSpins :
                  filter_criterion(psi, e, AuxValues(n, s2, m))
                      = filterCall.returned

C13_Witness ==
    /\ filterCall.status = "returned"
    /\ filterCall.returned
    /\ filterCall.aux_values["ParticleNumber"][1] = 200002001
    /\ filterCall.aux_values["Magnetization"][1] = -1
    /\ filterCall.aux_values["AngularMomentum"][1] = 200000000

\* The states of a result, and S from S^2 = S (S + 1).
StatesOf(r) == {r.states[i] : i \in 1..Len(r.states)}
TotalSpin(s2) == CHOOSE sp \in 0..3 : sp * (sp + 1) * 100000000 = s2

\* C14: every state the default filter returns is returned with the custom
\* filter_criterion too, and the custom filter returns exactly one more
\* state, the one with S = 1 (S^2 = 2): the ground state plus three excited
\* states, four in total.
C14_CustomFilterAddsTriplet ==
    Solved(Global("new_numpy_results")) =>
        LET old == Global("numpy_results")
            new == Global("new_numpy_results")
            added == StatesOf(new) \ StatesOf(old)
        IN  /\ Solved(old)
            /\ StatesOf(old) \subseteq StatesOf(new)
            /\ Len(new.states) = Len(old.states) + 1
            /\ Cardinality(added) = 1
            /\ \A st \in added :
                  /\ st.aux_values["AngularMomentum"][1] = 200000000
                  /\ TotalSpin(st.aux_values["AngularMomentum"][1]) = 1
            /\ \A st \in StatesOf(old) :
                  TotalSpin(st.aux_values["AngularMomentum"][1]) = 0
            /\ Len(new.states) = 4
            /\ new.states[1] = old.states[1]
            /\ Energies(new)
                  = <<-1857275030, -1244584550, -882722150, -224911253>>

C14_Witness ==
    /\ Solved(Global("new_numpy_results"))
    /\ Len(Global("new_numpy_results").states) = 4
    /\ SpinSquared(Global("new_numpy_results")) = <<0, 200000000, 0, 0>>
    /\ Cardinality(globals["es_problem"].spectrum) > 4

Defined(name) == name \in DOMAIN globals

Shown(es, item) ==
    IF es.kind = "QuasiDistribution" THEN item[2] ELSE item[2] * item[2]

\* C16: print_result prints the rows in order of non-increasing
\* probability, and when it returns every bitstring of the eigenstate is in
\* exactly one row, with its probability.
C16_RowsByProbability ==
    /\ \A i \in 1..(Len(printed) - 1) :
          printed[i].probability >= printed[i + 1].probability
    /\ ppc = "done" =>
          /\ Len(printed) = Len(eigenstate.items)
          /\ \A j \in 1..Len(eigenstate.items) :
                LET rows == {i \in 1..Len(printed) :
                                printed[i].x = Reversed(eigenstate.items[j][1])}
                IN  /\ Cardinality(rows) = 1
                    /\ \A i \in rows :
                          printed[i].probability
                              = Shown(eigenstate, eigenstate.items[j])

C16_Witness ==
    /\ ppc = "done"
    /\ eigenstate.kind = "Statevector"
    /\ Len(eigenstate.items) = 3
    /\ eigenstate.items[1][2] = 1
    /\ eigenstate.items[2][2] = 0
    /\ eigenstate.items[3][2] = -2
    /\ printed[1].x = Reversed(eigenstate.items[3][1])

====
